---------------------------- MODULE Spec2Model ----------------------------
(* A model of src/scripts/vectordb.py: the VectorDatabase store (put,      *)
(* delete, search, the with-block protocol) and its paragraph chunker.     *)
(*                                                                         *)
(* A text is a sequence of tokens: a run of words separated by single      *)
(* spaces, a space, or a newline.  A word is identified by its position    *)
(* in the text (1, 2, ...), so a run carries the interval lo..hi of the    *)
(* positions of its words.  A list of words (the result of str.split())    *)
(* is a sequence of such intervals <<lo, hi>>, read left to right.  The    *)
(* chunker never looks inside a word, so nothing it does is lost.          *)
EXTENDS Integers, Sequences, FiniteSets, TLC

\* ------------------------------------------------------------ constants

\* vectordb.py:11
CHUNK_SIZE == 1000

\* vectordb.py:219, the literal 100 of "if word_count < 100"
SMALL_PARAGRAPH == 100

\* ------------------------------------------------------------ bounds

\* Longest single-paragraph text the chunker is run on (words).
MaxWords == 3100

\* Most word runs in a multi-run text the chunker is run on.
MaxRuns == 3

\* Most equal small paragraphs in a row the chunker is run on.
MaxRepeat == 12

\* Most chunk ids (uuid4 values) drawn in one run of the store.
MaxUuid == 3

\* ------------------------------------------------------------ text

W(a, b) == [t |-> "w", lo |-> a, hi |-> b]
SP == [t |-> "sp", lo |-> 0, hi |-> 0]
NL == [t |-> "nl", lo |-> 0, hi |-> 0]

IsSpace(tok) == tok.t # "w"

Min(a, b) == IF a < b THEN a ELSE b

\* len(words) of a word list
RECURSIVE WordCount(_)
WordCount(ws) ==
    IF ws = <<>> THEN 0
    ELSE (Head(ws)[2] - Head(ws)[1] + 1) + WordCount(Tail(ws))

\* words[i:j] of a word list (0-based, j exclusive, 0 <= i <= j <= len)
RECURSIVE Slice(_, _, _)
Slice(ws, i, j) ==
    IF ws = <<>> \/ i >= j THEN <<>>
    ELSE LET lo == Head(ws)[1]
             n  == Head(ws)[2] - Head(ws)[1] + 1
         IN  IF i >= n THEN Slice(Tail(ws), i - n, j - n)
             ELSE <<  <<lo + i, lo + Min(j, n) - 1>>  >>
                  \o (IF j > n THEN Slice(Tail(ws), 0, j - n) ELSE <<>>)

\* str.split(): the words of a token string, whitespace dropped
split(s) ==
    LET runs == SelectSeq(s, LAMBDA tok : ~IsSpace(tok))
    IN  [k \in 1..Len(runs) |-> <<runs[k].lo, runs[k].hi>>]

\* str.strip(): leading and trailing whitespace removed
RECURSIVE lstrip(_)
lstrip(s) ==
    IF s # <<>> /\ IsSpace(Head(s)) THEN lstrip(Tail(s)) ELSE s

RECURSIVE rstrip(_)
rstrip(s) ==
    IF s # <<>> /\ IsSpace(s[Len(s)]) THEN rstrip(SubSeq(s, 1, Len(s) - 1)) ELSE s

strip(s) == rstrip(lstrip(s))

\* text.split('\n\n'): cut at each non-overlapping "\n\n", scanning from the
\* left; empty pieces are kept, as str.split(sep) keeps them
RECURSIVE SplitScan(_, _, _, _)
SplitScan(s, i, cur, acc) ==
    IF i > Len(s) THEN Append(acc, cur)
    ELSE IF i < Len(s) /\ s[i].t = "nl" /\ s[i + 1].t = "nl"
         THEN SplitScan(s, i + 2, <<>>, Append(acc, cur))
         ELSE SplitScan(s, i + 1, Append(cur, s[i]), acc)

split_blank_lines(s) == SplitScan(s, 1, <<>>, <<>>)

\* A variant: the pieces that are empty once stripped are kept,
\* [p.strip() for p in text.split('\n\n')].
ParagraphsKeepEmpty(text) ==
    LET pieces == split_blank_lines(text)
    IN  [k \in 1..Len(pieces) |-> strip(pieces[k])]

\* [p.strip() for p in text.split('\n\n') if p.strip()]
Paragraphs(text) ==
    LET pieces == split_blank_lines(text)
        kept   == SelectSeq(pieces, LAMBDA p : strip(p) # <<>>)
    IN  [k \in 1..Len(kept) |-> strip(kept[k])]

\* ------------------------------------------------------------ chunker

\* ' '.join(current_para): the words of the joined paragraphs, in order
RECURSIVE join(_)
join(paras) ==
    IF paras = <<>> THEN <<>> ELSE split(Head(paras)) \o join(Tail(paras))

\* A variant: num_chunks rounded down, total_words // CHUNK_SIZE.
NumChunksDropRemainder(total_words) == total_words \div CHUNK_SIZE

\* num_chunks = (total_words + CHUNK_SIZE - 1) // CHUNK_SIZE
NumChunks(total_words) == (total_words + CHUNK_SIZE - 1) \div CHUNK_SIZE

\* for i in range(0, total_words, target_size): words[i:min(i + target_size, total_words)]
RECURSIVE SplitPieces(_, _, _, _)
SplitPieces(words, i, target_size, total_words) ==
    IF i >= total_words THEN <<>>
    ELSE <<Slice(words, i, Min(i + target_size, total_words))>>
         \o SplitPieces(words, i + target_size, target_size, total_words)

split_large_paragraph(paragraph) ==
    LET words       == split(paragraph)
        total_words == WordCount(words)
        num_chunks  == NumChunks(total_words)
        target_size == total_words \div num_chunks
    IN  SplitPieces(words, 0, target_size, total_words)

\* The state of the loop of __chunk before its first paragraph.
ChunkStart == [chunks |-> <<>>, current_para |-> <<>>, current_word_count |-> 0]

\* "if current_para and current_word_count + word_count > CHUNK_SIZE": flush
FlushIfFull(st, word_count) ==
    IF st.current_para # <<>> /\ st.current_word_count + word_count > CHUNK_SIZE
    THEN [chunks |-> Append(st.chunks, join(st.current_para)),
          current_para |-> <<>>, current_word_count |-> 0]
    ELSE st

\* "if current_para:" flush any accumulated paragraphs
FlushPending(st) ==
    IF st.current_para # <<>>
    THEN [chunks |-> Append(st.chunks, join(st.current_para)),
          current_para |-> <<>>, current_word_count |-> 0]
    ELSE st

\* One iteration of "for para in paragraphs".
ChunkPara(st0, para) ==
    LET word_count == WordCount(split(para))
        st         == FlushIfFull(st0, word_count)
    IN  IF word_count < SMALL_PARAGRAPH
        THEN [st EXCEPT !.current_para = Append(@, para),
                        !.current_word_count = @ + word_count]
        ELSE IF word_count <= CHUNK_SIZE
        THEN [FlushPending(st) EXCEPT !.chunks = Append(@, split(para))]
        ELSE [FlushPending(st) EXCEPT !.chunks = @ \o split_large_paragraph(para)]

\* A variant: "return chunks" without the final flush.
ChunkFinishNoFlush(st) == st.chunks

\* "if current_para: chunks.append(...)" then "return chunks"
ChunkFinish(st) == FlushPending(st).chunks

RECURSIVE ChunkLoop(_, _)
ChunkLoop(st, paras) ==
    IF paras = <<>> THEN st ELSE ChunkLoop(ChunkPara(st, Head(paras)), Tail(paras))

\* VectorDatabase.__chunk(text)
chunk(text) == ChunkFinish(ChunkLoop(ChunkStart, Paragraphs(text)))

\* ------------------------------------------------------------ inputs of the chunker

\* The whitespace that can stand between two word runs: a space and a
\* line holding only a space leave them in one paragraph; a blank line
\* parts them, and so do three newlines ("\n\n" then "\n").
Gaps == { <<SP>>, <<NL, SP, NL>>, <<NL, NL>>, <<NL, NL, NL>> }

\* Word counts around the thresholds of the chunker.
RunSizes ==
    { 1, SMALL_PARAGRAPH - 1, SMALL_PARAGRAPH, CHUNK_SIZE - 1, CHUNK_SIZE,
      CHUNK_SIZE + 1, 2 * CHUNK_SIZE + 500 }

\* The text of the runs of the given sizes with the given gaps between them.
RECURSIVE MkText(_, _, _)
MkText(sizes, gaps, first) ==
    IF sizes = <<>> THEN <<>>
    ELSE <<W(first, first + Head(sizes) - 1)>>
         \o (IF Len(sizes) > 1 THEN Head(gaps) ELSE <<>>)
         \o MkText(Tail(sizes), IF gaps = <<>> THEN <<>> ELSE Tail(gaps),
                   first + Head(sizes))

\* One paragraph of n words.
OneRunText(n) == MkText(<<n>>, <<>>, 1)

\* The same between blank lines and trailing whitespace.
WrappedText(n) == <<NL, NL, NL, NL>> \o OneRunText(n) \o <<SP, NL, NL, NL>>

\* count paragraphs of the same size, a blank line between them.
RepeatedText(size, count) ==
    MkText([k \in 1..count |-> size], [k \in 1..(count - 1) |-> <<NL, NL>>], 1)

\* No word at all.
BlankTexts == { <<>>, <<SP>>, <<NL, NL>>, <<SP, NL, NL, NL, SP>> }

\* The inputs the chunker is run on.
IsChunkInput(t) ==
    \/ t \in BlankTexts
    \/ \E n \in 1..MaxWords : t = OneRunText(n)
    \/ \E n \in RunSizes : t = WrappedText(n)
    \/ \E k \in 2..MaxRuns :
         \E sizes \in [1..k -> RunSizes], gaps \in [1..(k - 1) -> Gaps] :
            t = MkText(sizes, gaps, 1)
    \/ \E size \in { 1, 90, SMALL_PARAGRAPH - 1 }, count \in 4..MaxRepeat :
         t = RepeatedText(size, count)

\* ------------------------------------------------------------ embedding and similarity

\* Embedder.embed hands each string to fastembed's TextEmbedding, a library
\* outside the repository: a deterministic map from a string to a vector.
\* The map below stands for it.  It sends different strings to equal and to
\* parallel vectors, so that equal similarities occur.
EmbedTable == << <<1, 0>>, <<2, 0>>, <<3, 4>>, <<4, 3>>, <<0, 1>> >>

TextEmbedding(str) == EmbedTable[(WordCount(str) % Len(EmbedTable)) + 1]

\* pickle.dumps(embedding) and pickle.loads(blob)
pickle_dumps(obj) == [pickled |-> obj]
pickle_loads(blob) == blob.pickled

Dot(a, b) == a[1] * b[1] + a[2] * b[2]

\* np.linalg.norm: every vector of EmbedTable has an integer norm
Norm(a) == CHOOSE n \in 0..(Dot(a, a)) : n * n = Dot(a, a)

\* similarity_score: the cosine, in hundredths (exact for EmbedTable)
similarity_score(query_embedding, vector) ==
    (100 * Dot(query_embedding, vector)) \div (Norm(query_embedding) * Norm(vector))

\* ------------------------------------------------------------ inputs of the store

\* Document names.
Names == { "a", "b" }

\* The texts put into the store: no chunk, one chunk, two chunks.  Their
\* words are at different positions: they are different words.
StoreTexts ==
    { <<>>,
      MkText(<<42>>, <<>>, 1),
      MkText(<<151, 200>>, << <<NL, NL>> >>, 5001) }

\* The query strings, each held as its words (as a chunk is).
Queries == { split(MkText(<<3>>, <<>>, 9001)), split(MkText(<<4>>, <<>>, 9101)) }

\* ------------------------------------------------------------ state

VARIABLES
    \* the store
    pc,              \* "closed": outside a with-block; "open": in its body;
                     \* "raising": an exception is leaving the body
    connection,      \* self.connection: "None" or "open"
    cursor,          \* self.cursor: "None" or "open"
    table_exists,    \* whether VECTORS has been created
    rows,            \* VECTORS as the connection sees it, in scan order
    committed,       \* VECTORS as committed to the database file
    chunk_files,     \* data/chunks: chunk_id -> content of <chunk_id>.txt
    raw_files,       \* data/raw: filename -> content
    next_uuid,       \* the number of uuid4() values drawn so far
    \* history, read by the properties only
    origin,          \* chunk_id of each chunk file -> the filename whose put wrote it
    completed,       \* the filenames whose put has returned, with no delete since
    deleted,         \* the filenames deleted, with no put since
    last,            \* the last call and what it returned
    \* the chunker, run step by step on one input
    text,            \* the argument of __chunk
    cpc,             \* where __chunk is: "idle", "split", "loop", "done"
    paragraphs,      \* the paragraphs the loop has not processed yet
    cst,             \* chunks, current_para, current_word_count
    chunks           \* the list __chunk returned

svars == <<pc, connection, cursor, table_exists, rows, committed, chunk_files,
           raw_files, next_uuid, origin, completed, deleted, last>>

cvars == <<text, cpc, paragraphs, cst, chunks>>

vars == <<svars, cvars>>

\* ------------------------------------------------------------ helpers of the store

Range(f) == { f[x] : x \in DOMAIN f }

\* f with key k removed
Without(f, k) == [x \in DOMAIN f \ {k} |-> f[x]]

\* f with key k set to v
With(f, k, v) == [x \in DOMAIN f \cup {k} |-> IF x = k THEN v ELSE f[x]]

NoFiles == [x \in {} |-> <<>>]

\* SELECT ... FROM VECTORS WHERE filename = ?
RowsOf(table, filename) == SelectSeq(table, LAMBDA r : r.filename = filename)

\* A variant: DELETE FROM VECTORS, without the WHERE clause.
delete_rows_all(table, filename) == <<>>

\* DELETE FROM VECTORS WHERE filename = ?
delete_rows(table, filename) == SelectSeq(table, LAMBDA r : r.filename # filename)

\* A variant: the scan narrowed to the rows of one filename.
select_first_file(table) ==
    IF table = <<>> THEN <<>> ELSE RowsOf(table, table[1].filename)

\* SELECT chunk_id, embedding FROM VECTORS; fetchall()
select_all(table) == table

\* A variant: __exit__ committing only when no exception left the body.
commit_unless_exception(durable, view, exc) == IF exc THEN durable ELSE view

\* connection.commit() in __exit__: what the database file holds afterwards,
\* whether or not an exception left the body (exc)
commit_on_exit(durable, view, exc) == view

\* The record of a call: for a put, fault is what went wrong in it; for a
\* delete, had_rows and had_raw tell what the store held for the filename
\* before it; for a search, query is its argument, result its yields and ids
\* the chunk ids of the rows they came from.
NoCall ==
    [op |-> "none", filename |-> "", query |-> <<>>, fault |-> "none",
     outcome |-> "ok", skipped |-> FALSE, had_rows |-> FALSE, had_raw |-> FALSE,
     result |-> <<>>, ids |-> <<>>]

\* ------------------------------------------------------------ the store's operations

StoreInit ==
    /\ pc = "closed"
    /\ connection = "None"
    /\ cursor = "None"
    /\ table_exists = FALSE
    /\ rows = <<>>
    /\ committed = <<>>
    /\ chunk_files = NoFiles
    /\ raw_files = NoFiles
    /\ next_uuid = 0
    /\ origin = NoFiles
    /\ completed = {}
    /\ deleted = {}
    /\ last = NoCall

\* VectorDatabase.__enter__: connect, open a cursor, create VECTORS if it
\* is not there, commit.  A new connection sees what was committed.
__enter__ ==
    /\ pc = "closed"
    /\ pc' = "open"
    /\ connection' = "open"
    /\ cursor' = "open"
    /\ table_exists' = TRUE
    /\ rows' = committed
    /\ last' = [NoCall EXCEPT !.op = "enter"]
    /\ UNCHANGED <<committed, chunk_files, raw_files, next_uuid, origin,
                   completed, deleted>>
    /\ UNCHANGED cvars

\* VectorDatabase.__exit__, called when the body ends and when an exception
\* leaves it: close the cursor, commit, close the connection.  It returns
\* None, so the exception goes on to the caller.
__exit__ ==
    /\ pc \in { "open", "raising" }
    /\ pc' = "closed"
    /\ cursor' = "None"
    /\ committed' = commit_on_exit(committed, rows, pc = "raising")
    /\ connection' = "None"
    /\ last' = [NoCall EXCEPT !.op = "exit",
                              !.outcome = IF pc = "raising" THEN "raise" ELSE "ok"]
    /\ UNCHANGED <<table_exists, rows, chunk_files, raw_files, next_uuid, origin,
                   completed, deleted>>
    /\ UNCHANGED cvars

\* What can go wrong in a put of n chunks.  "at" is the chunk (1..n) whose
\* step fails: the provider raises when asked for its vector (embed_raise),
\* its file cannot be opened for writing (blob_fail), its INSERT fails
\* (insert_fail).  For embed_short, at is the number of vectors the provider
\* yields before it stops early.  raw_fail: the raw text cannot be written.
\* (A chunk file whose write fails after open() created it is left as
\* insert_fail leaves it, a file with no row.)
Faults(n) ==
    { [kind |-> "none", at |-> 0], [kind |-> "raw_fail", at |-> 0] }
    \cup { [kind |-> "embed_short", at |-> k] : k \in 0..(n - 1) }
    \cup { [kind |-> k, at |-> i] :
             k \in { "embed_raise", "blob_fail", "insert_fail" }, i \in 1..n }

\* The loop "for chunk, embedding in zip(chunks, embeddings)" from its i-th
\* turn on.  zip takes the next chunk, then the next embedding: the
\* embeddings are a generator, each produced when zip asks for it.
RECURSIVE put_loop(_, _, _, _, _)
put_loop(filename, cks, i, fault, st) ==
    IF i > Len(cks) THEN st
    ELSE IF fault.kind = "embed_short" /\ i > fault.at THEN st
    ELSE IF fault.kind = "embed_raise" /\ i = fault.at
         THEN [st EXCEPT !.outcome = "raise"]
    ELSE LET embedding == TextEmbedding(cks[i])
             chunk_id  == st.next_uuid + 1
             drawn     == [st EXCEPT !.next_uuid = chunk_id]
             written   == [drawn EXCEPT
                             !.chunk_files = With(@, chunk_id, cks[i]),
                             !.origin = With(@, chunk_id, filename)]
             inserted  == [written EXCEPT !.rows = Append(@,
                             [id        |-> <<filename, chunk_id>>,
                              filename  |-> filename,
                              chunk_id  |-> chunk_id,
                              embedding |-> pickle_dumps(embedding)])]
         IN  IF fault.kind = "blob_fail" /\ i = fault.at
             THEN [drawn EXCEPT !.outcome = "raise"]
             ELSE IF fault.kind = "insert_fail" /\ i = fault.at
             THEN [written EXCEPT !.outcome = "raise"]
             ELSE put_loop(filename, cks, i + 1, fault, inserted)

\* The body of put after the existence check.
put_body(filename, t, cks, fault) ==
    LET st0 == [rows |-> rows, chunk_files |-> chunk_files, raw_files |-> raw_files,
                origin |-> origin, next_uuid |-> next_uuid, outcome |-> "ok"]
    IN  IF fault.kind = "raw_fail"
        THEN [st0 EXCEPT !.outcome = "raise"]
        ELSE put_loop(filename, cks, 1, fault,
                      [st0 EXCEPT !.raw_files = With(@, filename, t)])

\* SELECT COUNT(*) FROM VECTORS WHERE filename = ?; fetchone()[0] > 0
exists_in_database(filename) == Len(RowsOf(rows, filename)) > 0

\* VectorDatabase.put(filename, text)
put(filename, t) ==
    /\ pc = "open"
    /\ deleted' = deleted \ {filename}
    /\ IF exists_in_database(filename)
       THEN /\ last' = [NoCall EXCEPT !.op = "put", !.filename = filename,
                                      !.skipped = TRUE]
            /\ completed' = completed \cup {filename}
            /\ UNCHANGED <<pc, rows, chunk_files, raw_files, next_uuid, origin>>
       ELSE LET cks == chunk(t)
            IN  /\ next_uuid + Len(cks) <= MaxUuid
                /\ \E fault \in Faults(Len(cks)) :
                     LET st == put_body(filename, t, cks, fault)
                     IN  /\ rows' = st.rows
                         /\ chunk_files' = st.chunk_files
                         /\ raw_files' = st.raw_files
                         /\ origin' = st.origin
                         /\ next_uuid' = st.next_uuid
                         /\ completed' = IF st.outcome = "ok"
                                         THEN completed \cup {filename}
                                         ELSE completed
                         /\ pc' = IF st.outcome = "ok" THEN "open" ELSE "raising"
                         /\ last' = [NoCall EXCEPT !.op = "put",
                                                   !.filename = filename,
                                                   !.fault = fault.kind,
                                                   !.outcome = st.outcome]
    /\ UNCHANGED <<connection, cursor, table_exists, committed>>
    /\ UNCHANGED cvars

\* VectorDatabase.delete(filename)
delete(filename) ==
    /\ pc = "open"
    /\ LET chunk_ids == { r.chunk_id : r \in Range(RowsOf(rows, filename)) }
           kept      == DOMAIN chunk_files \ chunk_ids
       IN  /\ chunk_files' = [c \in kept |-> chunk_files[c]]
           /\ origin' = [c \in kept |-> origin[c]]
    /\ raw_files' = Without(raw_files, filename)
    /\ rows' = delete_rows(rows, filename)
    /\ committed' = rows'
    /\ completed' = completed \ {filename}
    /\ deleted' = deleted \cup {filename}
    /\ last' = [NoCall EXCEPT !.op = "delete", !.filename = filename,
                              !.had_rows = exists_in_database(filename),
                              !.had_raw = filename \in DOMAIN raw_files]
    /\ UNCHANGED <<pc, connection, cursor, table_exists, next_uuid>>
    /\ UNCHANGED cvars

\* sorted(pairs, key=lambda x: x[0], reverse=True): a stable sort, so pairs
\* of equal similarity stay in the order they had
RECURSIVE InsertAfterEqual(_, _)
InsertAfterEqual(sorted, x) ==
    IF sorted = <<>> THEN <<x>>
    ELSE IF Head(sorted)[1] >= x[1]
         THEN <<Head(sorted)>> \o InsertAfterEqual(Tail(sorted), x)
         ELSE <<x>> \o sorted

\* A variant: a descending sort that puts equal keys in reverse order, as
\* sorted(pairs, key=...)[::-1] does.
RECURSIVE InsertBeforeEqual(_, _)
InsertBeforeEqual(sorted, x) ==
    IF sorted = <<>> THEN <<x>>
    ELSE IF Head(sorted)[1] > x[1]
         THEN <<Head(sorted)>> \o InsertBeforeEqual(Tail(sorted), x)
         ELSE <<x>> \o sorted

RECURSIVE sorted_ties_reversed(_)
sorted_ties_reversed(pairs) ==
    IF pairs = <<>> THEN <<>>
    ELSE InsertBeforeEqual(sorted_ties_reversed(SubSeq(pairs, 1, Len(pairs) - 1)),
                           pairs[Len(pairs)])

RECURSIVE sorted_reverse(_)
sorted_reverse(pairs) ==
    IF pairs = <<>> THEN <<>>
    ELSE InsertAfterEqual(sorted_reverse(SubSeq(pairs, 1, Len(pairs) - 1)),
                          pairs[Len(pairs)])

\* zip(similarities, rows) of search, over the rows scanned from the i-th on
RECURSIVE ScoredFrom(_, _, _)
ScoredFrom(query_embedding, scan, i) ==
    IF i > Len(scan) THEN <<>>
    ELSE << <<similarity_score(query_embedding, pickle_loads(scan[i].embedding)),
              <<scan[i].chunk_id, scan[i].embedding>> >> >>
         \o ScoredFrom(query_embedding, scan, i + 1)

\* sorted_results of search: (similarity, (chunk_id, embedding)) pairs
sorted_results(query) ==
    sorted_reverse(ScoredFrom(TextEmbedding(query), select_all(rows), 1))

\* The chunk ids of the first n results.
RECURSIVE IdsOf(_, _)
IdsOf(results, n) ==
    IF n = 0 THEN <<>> ELSE <<Head(results)[2][1]>> \o IdsOf(Tail(results), n - 1)

\* The yields of search up to the first chunk file that cannot be opened.
RECURSIVE Yielded(_)
Yielded(results) ==
    IF results = <<>> \/ Head(results)[2][1] \notin DOMAIN chunk_files THEN <<>>
    ELSE << <<Head(results)[1], chunk_files[Head(results)[2][1]]>> >>
         \o Yielded(Tail(results))

\* VectorDatabase.search(query), consumed to its end by the caller, as
\* RetrievalAugmentedGenerator.generate does with list(self.db.search(query)).
search(query) ==
    /\ pc = "open"
    /\ LET results == sorted_results(query)
           yields  == Yielded(results)
           ok      == Len(yields) = Len(results)
       IN  /\ last' = [NoCall EXCEPT
                         !.op = "search", !.query = query,
                         !.outcome = IF ok THEN "ok" ELSE "raise",
                         !.result = yields,
                         !.ids = IdsOf(results, Len(yields))]
           /\ pc' = IF ok THEN "open" ELSE "raising"
    /\ UNCHANGED <<connection, cursor, table_exists, rows, committed, chunk_files,
                   raw_files, next_uuid, origin, completed, deleted>>
    /\ UNCHANGED cvars

\* search(query) when the embedding provider raises on the query
search_raise ==
    /\ pc = "open"
    /\ pc' = "raising"
    /\ last' = [NoCall EXCEPT !.op = "search", !.outcome = "raise",
                              !.fault = "embed_raise"]
    /\ UNCHANGED <<connection, cursor, table_exists, rows, committed, chunk_files,
                   raw_files, next_uuid, origin, completed, deleted>>
    /\ UNCHANGED cvars

\* ------------------------------------------------------------ the chunker, step by step

ChunkIdle ==
    /\ text = <<>>
    /\ cpc = "idle"
    /\ paragraphs = <<>>
    /\ cst = ChunkStart
    /\ chunks = <<>>

\* __chunk called with one of the inputs.
ChunkCalled ==
    /\ IsChunkInput(text)
    /\ cpc = "split"
    /\ paragraphs = <<>>
    /\ cst = ChunkStart
    /\ chunks = <<>>

\* vectordb.py:188-192
chunk_split ==
    /\ cpc = "split"
    /\ paragraphs' = Paragraphs(text)
    /\ cst' = ChunkStart
    /\ cpc' = "loop"
    /\ UNCHANGED <<text, chunks>>

\* vectordb.py:208-233, one paragraph
chunk_para ==
    /\ cpc = "loop"
    /\ paragraphs # <<>>
    /\ cst' = ChunkPara(cst, Head(paragraphs))
    /\ paragraphs' = Tail(paragraphs)
    /\ UNCHANGED <<text, cpc, chunks>>

\* vectordb.py:235-239
chunk_return ==
    /\ cpc = "loop"
    /\ paragraphs = <<>>
    /\ chunks' = ChunkFinish(cst)
    /\ cpc' = "done"
    /\ UNCHANGED <<text, paragraphs, cst>>

ChunkNext ==
    \/ chunk_split /\ UNCHANGED svars
    \/ chunk_para /\ UNCHANGED svars
    \/ chunk_return /\ UNCHANGED svars

\* The chunker alone, on every input of IsChunkInput.
ChunkInit == StoreInit /\ ChunkCalled

ChunkSpec == ChunkInit /\ [][ChunkNext]_vars

\* ------------------------------------------------------------ the store's specification

Init == StoreInit /\ ChunkIdle

Next ==
    \/ __enter__
    \/ __exit__
    \/ \E filename \in Names, t \in StoreTexts : put(filename, t)
    \/ \E filename \in Names : delete(filename)
    \/ \E query \in Queries : search(query)
    \/ search_raise

Spec == Init /\ [][Next]_vars

\* ------------------------------------------------------------ claims on the store

\* The rows of VECTORS whose chunk_id is c.
RowsWithChunk(c) == { k \in 1..Len(rows) : rows[k].chunk_id = c }

\* C1: in every reachable state the rows of VECTORS and the chunk files
\* are in one-to-one correspondence: each row has its chunk file, and each
\* chunk file has exactly one row.
C1_OneToOne ==
    /\ \A k \in 1..Len(rows) : rows[k].chunk_id \in DOMAIN chunk_files
    /\ \A c \in DOMAIN chunk_files : Cardinality(RowsWithChunk(c)) = 1

\* C2: a put of a filename whose put has completed, with no delete of it
\* since, is a no-op: the rows, the chunk files and the raw file of the
\* filename are left as they were.
C2_PutIdempotent ==
    [][ (last'.op = "put" /\ last'.filename \in completed)
        => /\ rows' = rows
           /\ chunk_files' = chunk_files
           /\ raw_files' = raw_files ]_vars

\* C3: once delete(filename) has returned, and until the filename is put
\* again, no row, chunk file or raw file of the filename remains, and no
\* search yields a chunk that came from it.
C3_DeleteComplete ==
    \A n \in deleted :
        /\ RowsOf(rows, n) = <<>>
        /\ n \notin DOMAIN raw_files
        /\ \A c \in DOMAIN chunk_files : origin[c] # n
        /\ last.op = "search" => \A k \in 1..Len(last.ids) : origin[last.ids[k]] # n

\* C4, as claimed: delete of a filename with no rows does not raise and
\* leaves the rows, the chunk files and the raw files as they were.
C4_DeleteAbsentUnchanged ==
    [][ (last'.op = "delete" /\ ~exists_in_database(last'.filename))
        => /\ last'.outcome = "ok"
           /\ rows' = rows
           /\ chunk_files' = chunk_files
           /\ raw_files' = raw_files ]_vars

\* C4, amended: delete of a filename with no rows does not raise and leaves
\* the rows and the chunk files as they were; of the raw files it removes
\* the filename's own, if there is one, and leaves the others.
C4_DeleteAbsent ==
    [][ (last'.op = "delete" /\ ~exists_in_database(last'.filename))
        => /\ last'.outcome = "ok"
           /\ rows' = rows
           /\ chunk_files' = chunk_files
           /\ raw_files' = Without(raw_files, last'.filename) ]_vars

\* C4 witness: a delete of a filename that had no rows but had a raw file,
\* in a store that holds the rows and files of another document.
C4_Witness ==
    /\ last.op = "delete"
    /\ ~last.had_rows
    /\ last.had_raw
    /\ rows # <<>>
    /\ DOMAIN raw_files # {}

\* C5: put is all-or-nothing.  Whatever goes wrong in it is raised to the
\* caller, and of a document's chunks (the chunks of its raw text) either
\* all have a row or none has, in the open store and in what is committed
\* once the store is closed.
C5_AllOrNothing ==
    /\ (last.op = "put" /\ last.fault # "none") => last.outcome = "raise"
    /\ \A n \in DOMAIN raw_files :
         LET all == Len(chunk(raw_files[n]))
         IN  /\ Len(RowsOf(rows, n)) \in { 0, all }
             /\ pc = "closed" => Len(RowsOf(committed, n)) \in { 0, all }

\* The place of the row of chunk c in the scan SELECT returns.
PlaceInScan(c) == CHOOSE k \in 1..Len(rows) : rows[k].chunk_id = c

\* C6: the yields of search are in non-increasing order of similarity, and
\* records of equal similarity are in the order the scan returned them.
C6_StableDescending ==
    (last.op = "search" /\ last.outcome = "ok") =>
        \A i, j \in 1..Len(last.result) :
            i < j =>
              /\ last.result[i][1] >= last.result[j][1]
              /\ last.result[i][1] = last.result[j][1]
                   => PlaceInScan(last.ids[i]) < PlaceInScan(last.ids[j])

\* C6 witness: a search that yielded two records of equal similarity and
\* one of another, and had to move a record from where the scan had it.
C6_Witness ==
    /\ last.op = "search"
    /\ last.outcome = "ok"
    /\ \E i, j \in 1..Len(last.result) :
         i < j /\ last.result[i][1] = last.result[j][1]
    /\ \E i, j \in 1..Len(last.result) : last.result[i][1] > last.result[j][1]
    /\ last.ids[1] # rows[1].chunk_id

\* C7: a search that the provider does not fail yields, for each row of
\* VECTORS, exactly one pair: the similarity of the query to the row's
\* embedding and the content of the row's chunk file; and nothing else.
C7_SearchScoresAll ==
    (last.op = "search" /\ last.fault = "none") =>
        /\ last.outcome = "ok"
        /\ Len(last.result) = Len(rows)
        /\ \A k \in 1..Len(rows) :
             Cardinality({ i \in 1..Len(last.ids) : last.ids[i] = rows[k].chunk_id }) = 1
        /\ \A i \in 1..Len(last.ids) :
             /\ RowsWithChunk(last.ids[i]) # {}
             /\ last.result[i] =
                  << similarity_score(TextEmbedding(last.query),
                       pickle_loads(rows[PlaceInScan(last.ids[i])].embedding)),
                     chunk_files[last.ids[i]] >>

\* C7 witness: a search over the rows of two documents, three rows or more.
C7_Witness ==
    /\ last.op = "search"
    /\ last.outcome = "ok"
    /\ Len(last.result) >= 3
    /\ \A n \in Names : RowsOf(rows, n) # <<>>

\* C8: outside a with-block nothing is left open and nothing is left
\* uncommitted: the cursor and the connection are closed and the database
\* file holds every row the connection had, however the body ended.
C8_ReleasedOnExit ==
    pc = "closed" =>
        /\ connection = "None"
        /\ cursor = "None"
        /\ committed = rows

\* C8 witness: a with-block left by an exception of put, whose rows (those
\* of the chunks put before it raised) are committed: no put had returned
\* and no delete had committed anything.
C8_Witness ==
    /\ pc = "closed"
    /\ last.op = "exit"
    /\ last.outcome = "raise"
    /\ completed = {}
    /\ deleted = {}
    /\ committed # <<>>

\* ------------------------------------------------------------ claims on the chunker

\* Every chunk __chunk has appended so far, and every one it returns.
Produced == IF cpc = "done" THEN chunks ELSE cst.chunks

\* C9: every chunk the chunker produces has at most CHUNK_SIZE words,
\* whether it joins small paragraphs, is one medium paragraph, or is a piece
\* of an oversize paragraph.
C9_ChunkBound ==
    \A k \in 1..Len(Produced) : WordCount(Produced[k]) <= CHUNK_SIZE

\* C9 witness: a finished run over two small paragraphs and an oversize
\* one: the first chunk joins the small ones, the others are the pieces of
\* the oversize one, the last piece shorter than the rest.
C9_Witness ==
    /\ cpc = "done"
    /\ LET paras == Paragraphs(text)
       IN  /\ Len(paras) = 3
           /\ WordCount(split(paras[1])) < SMALL_PARAGRAPH
           /\ WordCount(split(paras[2])) < SMALL_PARAGRAPH
           /\ WordCount(split(paras[3])) > 2 * CHUNK_SIZE
           /\ Len(chunks) >= 4
           /\ chunks[1] = join(<<paras[1], paras[2]>>)
           /\ WordCount(chunks[Len(chunks)]) < WordCount(chunks[2])

\* The word lists of the chunks, one after the other.
RECURSIVE Concat(_)
Concat(seqs) == IF seqs = <<>> THEN <<>> ELSE Head(seqs) \o Concat(Tail(seqs))

\* A word list with touching intervals merged: <<1,3>>,<<4,9>> is <<1,9>>.
RECURSIVE Merged(_)
Merged(ws) ==
    IF Len(ws) < 2 THEN ws
    ELSE IF ws[1][2] + 1 = ws[2][1]
         THEN Merged(<< <<ws[1][1], ws[2][2]>> >> \o SubSeq(ws, 3, Len(ws)))
         ELSE <<ws[1]>> \o Merged(Tail(ws))

\* C10: the words of the returned chunks, concatenated in order, are exactly
\* the words of the text in order: none dropped, duplicated or reordered.
C10_WordsPreserved ==
    cpc = "done" => Merged(Concat(chunks)) = Merged(split(text))

\* C10 witness: a finished run over several paragraphs, one of them split.
C10_Witness ==
    /\ cpc = "done"
    /\ Len(Paragraphs(text)) >= 2
    /\ Len(chunks) >= 4
    /\ \E k \in 1..Len(chunks) : Len(chunks[k]) > 1

\* The paragraph the loop of __chunk is about to handle is an oversize one.
OversizeNext ==
    /\ cpc = "loop"
    /\ paragraphs # <<>>
    /\ WordCount(split(Head(paragraphs))) > CHUNK_SIZE

\* The chunks one iteration of the loop appended for its paragraph itself,
\* read off the chunk list before and after: the list grows first by the
\* flushed accumulation, when there is one, then by the paragraph's chunks.
OwnChunks(before, after) ==
    LET flushed == IF before.current_para # <<>> THEN 1 ELSE 0
    IN  SubSeq(after.chunks, Len(before.chunks) + flushed + 1, Len(after.chunks))

\* ceil(n / CHUNK_SIZE)
CeilOfBudget(n) == (n + CHUNK_SIZE - 1) \div CHUNK_SIZE

\* C11: a paragraph of more than CHUNK_SIZE words is split into exactly
\* ceil(n / CHUNK_SIZE) pieces, and the word counts of the pieces differ by
\* at most one (by rounding only).
C11_OversizeSplit ==
    [][ OversizeNext =>
          LET n      == WordCount(split(Head(paragraphs)))
              pieces == OwnChunks(cst, cst')
          IN  /\ Len(pieces) = CeilOfBudget(n)
              /\ \A i, j \in 1..Len(pieces) :
                   WordCount(pieces[i]) - WordCount(pieces[j]) <= 1 ]_vars

\* len(text.split()), the words of the whole text
TotalWords == WordCount(split(text))

\* Every paragraph of the text is a small one.
AllSmall(paras) ==
    \A k \in 1..Len(paras) : WordCount(split(paras[k])) < SMALL_PARAGRAPH

\* C12 as first stated: a text without a word gives no chunk, and a text of
\* 1 to CHUNK_SIZE words gives exactly one chunk, whatever its paragraphs.
C12_SmallInputsOneChunk ==
    cpc = "done" =>
        /\ TotalWords = 0 => chunks = <<>>
        /\ (TotalWords >= 1 /\ TotalWords <= CHUNK_SIZE) => Len(chunks) = 1

\* C12: a text without a word (empty or whitespace only) gives no chunk, and
\* a text of 1 to CHUNK_SIZE words gives exactly one chunk when it is a
\* single paragraph or all its paragraphs are small ones (under 100 words).
C12_SmallInputs ==
    cpc = "done" =>
        /\ TotalWords = 0 => chunks = <<>>
        /\ ( /\ TotalWords >= 1
             /\ TotalWords <= CHUNK_SIZE
             /\ (Len(Paragraphs(text)) = 1 \/ AllSmall(Paragraphs(text))) )
           => Len(chunks) = 1

\* C12 witness: a finished run over several small paragraphs that nearly
\* fill the budget together, returned as one chunk.
C12_Witness ==
    /\ cpc = "done"
    /\ Len(Paragraphs(text)) >= 4
    /\ AllSmall(Paragraphs(text))
    /\ TotalWords > CHUNK_SIZE - SMALL_PARAGRAPH
    /\ TotalWords <= CHUNK_SIZE
    /\ Len(chunks) = 1

=============================================================================
